---- MODULE Spec2Model ----
(***************************************************************************)
(* Package gox: Knuth's Algorithm X with dancing links (src/gox.go).       *)
(*                                                                         *)
(* The heap of node structs is the sequence `nodes`; a *node is an index   *)
(* into it and Nil (0) is the nil pointer.  A *rowHeader is an index into  *)
(* p.rowHeaders.  Go slices and loops are 0-based, TLA+ sequences 1-based: *)
(* Go's m[i] is m[i+1] here; the index and colIndex fields keep Go's       *)
(* 0-based values.                                                         *)
(***************************************************************************)
EXTENDS Integers, Sequences, FiniteSets, TLC

VARIABLES
    m,          \* the matrix handed to NewExactCoverProblem
    n,          \* the row names handed to NewExactCoverProblem
    ctl,        \* "new": not constructed yet; "ready": a Problem exists;
                \* "failed": the constructor returned nil; "panic": the process died
    err,        \* the error NewExactCoverProblem returned
    nodes,      \* the heap of node structs
    p,          \* the exactCoverProblem struct
    frames,     \* the call stack of the call in progress (empty: the caller runs)
    hist,       \* the calls completed so far, with what they returned
    covered     \* the column headers covered and not uncovered since, in the
                \* order of the calls of cover

vars == <<m, n, ctl, err, nodes, p, frames, hist, covered>>

----------------------------------------------------------------------------
(* Bounds of the model *)

MaxRows == 3
MaxCols == 3
MaxPre == 2
MaxSolve == 2

\* The depth of recursion at which the run is given up as a stack overflow (the
\* Go runtime's limit is 1 GB of stack); a search that pushes a different row
\* in every frame stays below it.
MaxDepth == MaxRows + 3

----------------------------------------------------------------------------
(* Inputs *)

NameOf == <<"A", "B", "C", "D", "E", "F">>

\* Names a caller may pass to RowIsSolution: one more than any matrix has rows,
\* so that the last one is never a row.
Names == {NameOf[i] : i \in 1..(MaxRows + 1)}

Rows0 == UNION {[1..k -> BOOLEAN] : k \in 0..MaxCols}

Matrices == UNION {[1..k -> Rows0] : k \in 0..MaxRows}

\* Name lists up to renaming: the i-th name is one already used or the next
\* unused one.
Canonical(ix) ==
    \A i \in 1..Len(ix) :
        \/ \E j \in 1..(i - 1) : ix[j] = ix[i]
        \/ ix[i] = 1 + Cardinality({ix[j] : j \in 1..(i - 1)})

NameLists(k) ==
    {[i \in 1..k |-> NameOf[ix[i]]] : ix \in {x \in [1..k -> 1..k] : Canonical(x)}}

----------------------------------------------------------------------------
(* Data *)

Nil == 0

NoError == "nil"

newNode(ci) ==
    [left |-> Nil, right |-> Nil, up |-> Nil, down |-> Nil,
     colHead |-> Nil, rowHead |-> Nil, colCount |-> 0, colIndex |-> ci]

newRowHeader(nm, ix) == [name |-> nm, index |-> ix, first |-> Nil]

newProblem ==
    [root |-> Nil, colHeaders |-> << >>, rowHeaders |-> << >>,
     numRows |-> 0, numCols |-> 0,
     solutionRows |-> << >>, solutions |-> << >>, rowsByName |-> << >>]

\* x.f = v
Store(nd, x, f, v) == [nd EXCEPT ![x][f] = v]

----------------------------------------------------------------------------
(* Construction *)

\* checkInputs that lets a matrix of one row pass
checkInputs_OneRow(mm, nn) ==
    IF Len(mm) < 1
    THEN "Number of columns must exceed 1"
    ELSE IF \E i \in 1..Len(mm) : Len(mm[i]) # Len(mm[1])
    THEN "All rows must be same length"
    ELSE NoError

checkInputs(mm, nn) ==
    IF Len(mm) <= 1
    THEN "Number of columns must exceed 1"
    ELSE IF \E i \in 1..Len(mm) : Len(mm[i]) # Len(mm[1])
    THEN "All rows must be same length"
    ELSE NoError

\* s is the pair [nodes, p]
RECURSIVE allocateFrom(_, _)
allocateFrom(s, i) ==
    IF i < s.p.numCols
    THEN allocateFrom(
            [nodes |-> Append(s.nodes, newNode(i)),
             p |-> [s.p EXCEPT !.colHeaders = Append(@, Len(s.nodes) + 1)]],
            i + 1)
    ELSE s

allocateColHeaders(s) == allocateFrom(s, 0)

\* linkColHeader without line 136: the left neighbour's right link is not set
linkColHeader_NoRight(nd, root, h) ==
    LET n1 == Store(nd, h, "up", h)
        n2 == Store(n1, h, "down", h)
        n3 == Store(n2, h, "right", root)
        n4 == Store(n3, h, "left", n3[root].left)
    IN  Store(n4, root, "left", h)

linkColHeader(nd, root, h) ==
    LET n1 == Store(nd, h, "up", h)
        n2 == Store(n1, h, "down", h)
        n3 == Store(n2, h, "right", root)
        n4 == Store(n3, h, "left", n3[root].left)
        n5 == Store(n4, n4[root].left, "right", h)
    IN  Store(n5, root, "left", h)

RECURSIVE initializeFrom(_, _)
initializeFrom(s, i) ==
    IF i <= Len(s.p.colHeaders)
    THEN initializeFrom(
            [s EXCEPT !.nodes = linkColHeader(@, s.p.root, s.p.colHeaders[i])],
            i + 1)
    ELSE s

initializeColHeaders(s) == initializeFrom(s, 1)

\* createNode that adds the node to the column at the top
createNode_AtTop(s, rh, colIndex, firstNode) ==
    LET colHead == s.p.colHeaders[colIndex + 1]
        nd == Len(s.nodes) + 1
        n0 == Append(s.nodes,
                     [newNode(colIndex) EXCEPT !.rowHead = rh, !.colHead = colHead])
        n1 == IF firstNode = Nil
              THEN Store(Store(n0, nd, "left", nd), nd, "right", nd)
              ELSE LET a == Store(n0, nd, "right", firstNode)
                       b == Store(a, nd, "left", a[firstNode].left)
                       c == Store(b, b[firstNode].left, "right", nd)
                   IN  Store(c, firstNode, "left", nd)
        p1 == IF s.p.rowHeaders[rh].first = Nil
              THEN [s.p EXCEPT !.rowHeaders[rh].first = nd]
              ELSE s.p
        n2 == Store(n1, nd, "up", colHead)
        n3 == Store(n2, nd, "down", n2[colHead].down)
        n4 == Store(n3, n3[colHead].down, "up", nd)
        n5 == Store(n4, colHead, "down", nd)
        n6 == Store(n5, colHead, "colCount", n5[colHead].colCount + 1)
    IN  [nodes |-> n6, p |-> p1, firstNode |-> IF firstNode = Nil THEN nd ELSE firstNode]

\* The body of the inner loop of createNodes for a true element: rh is the
\* row header, firstNode the local variable; the new node is the result's nd.
createNode(s, rh, colIndex, firstNode) ==
    LET colHead == s.p.colHeaders[colIndex + 1]
        nd == Len(s.nodes) + 1
        n0 == Append(s.nodes,
                     [newNode(colIndex) EXCEPT !.rowHead = rh, !.colHead = colHead])
        \* add the node to the row at the right
        n1 == IF firstNode = Nil
              THEN Store(Store(n0, nd, "left", nd), nd, "right", nd)
              ELSE LET a == Store(n0, nd, "right", firstNode)
                       b == Store(a, nd, "left", a[firstNode].left)
                       c == Store(b, b[firstNode].left, "right", nd)
                   IN  Store(c, firstNode, "left", nd)
        p1 == IF s.p.rowHeaders[rh].first = Nil
              THEN [s.p EXCEPT !.rowHeaders[rh].first = nd]
              ELSE s.p
        \* add the node to the column at the bottom
        n2 == Store(n1, nd, "down", colHead)
        n3 == Store(n2, nd, "up", n2[colHead].up)
        n4 == Store(n3, n3[colHead].up, "down", nd)
        n5 == Store(n4, colHead, "up", nd)
        n6 == Store(n5, colHead, "colCount", n5[colHead].colCount + 1)
    IN  [nodes |-> n6, p |-> p1, firstNode |-> IF firstNode = Nil THEN nd ELSE firstNode]

RECURSIVE createRow(_, _, _, _, _)
createRow(s, row, rh, colIndex, firstNode) ==
    IF colIndex < Len(row)
    THEN IF row[colIndex + 1]
         THEN LET r == createNode(s, rh, colIndex, firstNode)
              IN  createRow([nodes |-> r.nodes, p |-> r.p], row, rh, colIndex + 1,
                            r.firstNode)
         ELSE createRow(s, row, rh, colIndex + 1, firstNode)
    ELSE s

RECURSIVE createFrom(_, _, _, _)
createFrom(s, mm, nn, rowIndex) ==
    IF rowIndex < Len(mm)
    THEN LET name == nn[rowIndex + 1]
             rh == Len(s.p.rowHeaders) + 1
         IN  IF name \in DOMAIN s.p.rowsByName
             THEN [s |-> s, err |-> "Duplicate row name present"]
             ELSE LET p1 == [s.p EXCEPT
                                !.rowsByName = (name :> rh) @@ @,
                                !.rowHeaders = Append(@, newRowHeader(name, rowIndex))]
                  IN  createFrom(createRow([s EXCEPT !.p = p1], mm[rowIndex + 1], rh, 0, Nil),
                                 mm, nn, rowIndex + 1)
    ELSE [s |-> s, err |-> NoError]

createNodes(s, mm, nn) == createFrom(s, mm, nn, 0)

\* The pair the constructor returns, with the heap it built: ok is "the
\* returned pointer is not nil".
Built(s, e) == [ok |-> TRUE, nodes |-> s.nodes, p |-> s.p, err |-> e]

NoProblem(e) == [ok |-> FALSE, nodes |-> << >>, p |-> newProblem, err |-> e]

NewExactCoverProblem(mm, nn) ==
    LET e1 == checkInputs(mm, nn)
    IN  IF e1 # NoError
        THEN NoProblem(e1)
        ELSE LET root == 1
                 s0 == [nodes |-> <<[newNode(-1) EXCEPT !.right = root, !.left = root]>>,
                        p |-> [newProblem EXCEPT !.numRows = Len(mm),
                                                 !.numCols = Len(mm[1]),
                                                 !.root = root]]
                 s1 == initializeColHeaders(allocateColHeaders(s0))
                 r == createNodes(s1, mm, nn)
             IN  IF r.err # NoError
                 THEN NoProblem(r.err)
                 ELSE Built(r.s, NoError)

----------------------------------------------------------------------------
(* Cover, uncover, column choice *)

\* The one element of a set of one element. The loops below take their
\* arguments as { body : x \in {x0} }: the argument is evaluated once and x
\* is its value, as a Go variable holds a value and not an expression.
Value(S) == CHOOSE x \in S : TRUE

\* coverRow that forgets colCount
RECURSIVE coverRow_NoCount(_, _, _)
coverRow_NoCount(nd0, rowNode0, rightNode0) ==
    Value({
        IF rightNode # rowNode
        THEN LET n1 == Store(nd, nd[rightNode].up, "down", nd[rightNode].down)
                 n2 == Store(n1, n1[rightNode].down, "up", n1[rightNode].up)
             IN  coverRow_NoCount(n2, rowNode, n2[rightNode].right)
        ELSE nd
        : nd \in {nd0}, rowNode \in {rowNode0}, rightNode \in {rightNode0}})

RECURSIVE coverRow(_, _, _)
coverRow(nd0, rowNode0, rightNode0) ==
    Value({
        IF rightNode # rowNode
        THEN LET n1 == Store(nd, nd[rightNode].up, "down", nd[rightNode].down)
                 n2 == Store(n1, n1[rightNode].down, "up", n1[rightNode].up)
                 ch == n2[rightNode].colHead
                 n3 == Store(n2, ch, "colCount", n2[ch].colCount - 1)
             IN  coverRow(n3, rowNode, n3[rightNode].right)
        ELSE nd
        : nd \in {nd0}, rowNode \in {rowNode0}, rightNode \in {rightNode0}})

RECURSIVE coverRows(_, _, _)
coverRows(nd0, head0, rowNode0) ==
    Value({
        IF rowNode # head
        THEN LET n1 == coverRow(nd, rowNode, nd[rowNode].right)
             IN  coverRows(n1, head, n1[rowNode].down)
        ELSE nd
        : nd \in {nd0}, head \in {head0}, rowNode \in {rowNode0}})

\* cover that unlinks the header and leaves the rows of the column in place
cover_HeaderOnly(nd, head) ==
    LET n1 == Store(nd, nd[head].right, "left", nd[head].left)
    IN  Store(n1, n1[head].left, "right", n1[head].right)

\* cover without lines 257-258: the header stays in the root ring
cover_RowsOnly(nd, head) == coverRows(nd, head, nd[head].down)

cover(nd, head) ==
    LET n1 == Store(nd, nd[head].right, "left", nd[head].left)
        n2 == Store(n1, n1[head].left, "right", n1[head].right)
    IN  coverRows(n2, head, n2[head].down)

\* uncoverRow that forgets colCount
RECURSIVE uncoverRow_NoCount(_, _, _)
uncoverRow_NoCount(nd0, rowNode0, leftNode0) ==
    Value({
        IF leftNode # rowNode
        THEN LET n1 == Store(nd, nd[leftNode].up, "down", leftNode)
                 n2 == Store(n1, n1[leftNode].down, "up", leftNode)
             IN  uncoverRow_NoCount(n2, rowNode, n2[leftNode].left)
        ELSE nd
        : nd \in {nd0}, rowNode \in {rowNode0}, leftNode \in {leftNode0}})

RECURSIVE uncoverRow(_, _, _)
uncoverRow(nd0, rowNode0, leftNode0) ==
    Value({
        IF leftNode # rowNode
        THEN LET n1 == Store(nd, nd[leftNode].up, "down", leftNode)
                 n2 == Store(n1, n1[leftNode].down, "up", leftNode)
                 ch == n2[leftNode].colHead
                 n3 == Store(n2, ch, "colCount", n2[ch].colCount + 1)
             IN  uncoverRow(n3, rowNode, n3[leftNode].left)
        ELSE nd
        : nd \in {nd0}, rowNode \in {rowNode0}, leftNode \in {leftNode0}})

\* uncoverRows that walks the column downwards, as cover does
RECURSIVE uncoverRows_Down(_, _, _)
uncoverRows_Down(nd0, head0, rowNode0) ==
    Value({
        IF rowNode # head
        THEN LET n1 == uncoverRow(nd, rowNode, nd[rowNode].left)
             IN  uncoverRows_Down(n1, head, n1[rowNode].down)
        ELSE nd
        : nd \in {nd0}, head \in {head0}, rowNode \in {rowNode0}})

RECURSIVE uncoverRows(_, _, _)
uncoverRows(nd0, head0, rowNode0) ==
    Value({
        IF rowNode # head
        THEN LET n1 == uncoverRow(nd, rowNode, nd[rowNode].left)
             IN  uncoverRows(n1, head, n1[rowNode].up)
        ELSE nd
        : nd \in {nd0}, head \in {head0}, rowNode \in {rowNode0}})

\* uncover without line 290: the left neighbour is not linked to the header
uncover_OneLink(nd, head) ==
    LET n1 == uncoverRows(nd, head, nd[head].up)
    IN  Store(n1, n1[head].right, "left", head)

uncover(nd, head) ==
    LET n1 == uncoverRows(nd, head, nd[head].up)
        n2 == Store(n1, n1[head].right, "left", head)
    IN  Store(n2, n2[head].left, "right", head)

\* nextCol with <= at line 299: among equal counts the last header met wins
RECURSIVE nextColFrom_LastWins(_, _, _, _)
nextColFrom_LastWins(nd, root, c, ret) ==
    IF c # root
    THEN nextColFrom_LastWins(nd, root, nd[c].right,
                              IF nd[c].colCount <= nd[ret].colCount THEN c ELSE ret)
    ELSE ret

RECURSIVE nextColFrom(_, _, _, _)
nextColFrom(nd, root, c, ret) ==
    IF c # root
    THEN nextColFrom(nd, root, nd[c].right,
                     IF nd[c].colCount < nd[ret].colCount THEN c ELSE ret)
    ELSE ret

nextCol(nd, pp) == nextColFrom(nd, pp.root, nd[pp.root].right, nd[pp.root].right)

\* pushRowToSolution that puts the row under the stack
pushRowToSolution_Under(pp, r) == [pp EXCEPT !.solutionRows = <<r>> \o @]

pushRowToSolution(pp, r) == [pp EXCEPT !.solutionRows = Append(@, r)]

popRowFromSolution(pp) ==
    [pp EXCEPT !.solutionRows = SubSeq(@, 1, Len(@) - 1)]

\* lines 206-210: the names of the rows on the stack, appended to the solutions
recordSolution(pp) ==
    [pp EXCEPT !.solutions =
        Append(@, [i \in 1..Len(pp.solutionRows) |->
                        pp.rowHeaders[pp.solutionRows[i]].name])]

----------------------------------------------------------------------------
(* Calls in progress *)

\* A frame of search: pc is where it stands, colHead and rowNode its locals,
\* cur the rightNode or leftNode of its inner loops; entry is what the heap and
\* the stack of rows were when it was entered.  A frame of RowIsSolution has
\* header and name, and cur is its rightNode.
searchFrame(nd, pp) ==
    [fn |-> "search", pc |-> "enter", colHead |-> Nil, rowNode |-> Nil, cur |-> Nil,
     header |-> Nil, name |-> "",
     entry |-> [nodes |-> nd, solutionRows |-> pp.solutionRows]]

rowIsSolutionFrame(nd, pp, nm, hd) ==
    [fn |-> "RowIsSolution", pc |-> "coverRight", colHead |-> Nil, rowNode |-> Nil,
     cur |-> nd[pp.rowHeaders[hd].first].right,
     header |-> hd, name |-> nm,
     entry |-> [nodes |-> nd, solutionRows |-> pp.solutionRows]]

\* cs without its last c: what uncover(c) leaves of the columns covered
Uncovered(cs, c) ==
    LET at == {i \in 1..Len(cs) : cs[i] = c}
    IN  IF at = {} THEN cs
        ELSE LET k == CHOOSE i \in at : \A j \in at : j <= i
             IN  SubSeq(cs, 1, k - 1) \o SubSeq(cs, k + 1, Len(cs))

Top == frames[Len(frames)]

SetTop(f) == [frames EXCEPT ![Len(frames)] = f]

At(fn, pc) == ctl = "ready" /\ frames # << >> /\ Top.fn = fn /\ Top.pc = pc

Idle == ctl = "ready" /\ frames = << >>

Called(op) == {i \in 1..Len(hist) : hist[i].op = op}

solveReturn(pp) ==
    [op |-> "Solve", name |-> "", err |-> NoError, solutions |-> pp.solutions]

rowIsSolutionReturn(nm, e) ==
    [op |-> "RowIsSolution", name |-> nm, err |-> e, solutions |-> << >>]

\* search returns: to the search that called it (which goes on at the pc it
\* left), or to Solve, which returns p.solutions
SearchReturn(pp) ==
    /\ frames' = SubSeq(frames, 1, Len(frames) - 1)
    /\ hist' = IF Len(frames) = 1 THEN Append(hist, solveReturn(pp)) ELSE hist

----------------------------------------------------------------------------
(* The state machine *)

Init ==
    /\ m \in Matrices
    /\ n \in NameLists(Len(m))
    /\ ctl = "new"
    /\ err = NoError
    /\ nodes = << >>
    /\ p = newProblem
    /\ frames = << >>
    /\ hist = << >>
    /\ covered = << >>

New ==
    /\ ctl = "new"
    /\ LET r == NewExactCoverProblem(m, n)
       IN  /\ ctl' = IF r.ok THEN "ready" ELSE "failed"
           /\ err' = r.err
           /\ nodes' = r.nodes
           /\ p' = r.p
    /\ UNCHANGED <<m, n, frames, hist, covered>>

\* Solve, line 321: the call of search
Solve ==
    /\ Idle
    /\ Cardinality(Called("Solve")) < MaxSolve
    /\ frames' = <<searchFrame(nodes, p)>>
    /\ UNCHANGED <<m, n, ctl, err, nodes, p, hist, covered>>

\* search, lines 203-212
SearchSolution ==
    /\ At("search", "enter")
    /\ p.root = nodes[p.root].right
    /\ p' = recordSolution(p)
    /\ SearchReturn(p')
    /\ UNCHANGED <<m, n, ctl, err, nodes, covered>>

\* search that does not return from line 218: it stays where it is
SearchDeadEnd_NoReturn ==
    /\ At("search", "enter")
    /\ p.root # nodes[p.root].right
    /\ nodes[nextCol(nodes, p)].colCount = 0
    /\ UNCHANGED vars

\* search, lines 216-219
SearchDeadEnd ==
    /\ At("search", "enter")
    /\ p.root # nodes[p.root].right
    /\ nodes[nextCol(nodes, p)].colCount = 0
    /\ SearchReturn(p)
    /\ UNCHANGED <<m, n, ctl, err, nodes, p, covered>>

\* search, lines 216-224: the column is chosen and covered, the loop starts
SearchBranch ==
    /\ At("search", "enter")
    /\ p.root # nodes[p.root].right
    /\ LET colHead == nextCol(nodes, p)
       IN  /\ nodes[colHead].colCount # 0
           /\ nodes' = cover(nodes, colHead)
           /\ frames' = SetTop([Top EXCEPT !.pc = "loop", !.colHead = colHead,
                                           !.rowNode = nodes'[colHead].down])
           /\ covered' = Append(covered, colHead)
    /\ UNCHANGED <<m, n, ctl, err, p, hist>>

\* search, lines 224-230
SearchPushRow ==
    /\ At("search", "loop")
    /\ Top.rowNode # Top.colHead
    /\ p' = pushRowToSolution(p, nodes[Top.rowNode].rowHead)
    /\ frames' = SetTop([Top EXCEPT !.pc = "coverRow", !.cur = nodes[Top.rowNode].right])
    /\ UNCHANGED <<m, n, ctl, err, nodes, hist, covered>>

\* the loop of lines 230-232 without the call of cover
SearchCoverRight_NoCover ==
    /\ At("search", "coverRow")
    /\ Top.cur # Top.rowNode
    /\ frames' = SetTop([Top EXCEPT !.cur = nodes[Top.cur].right])
    /\ UNCHANGED <<m, n, ctl, err, nodes, p, hist, covered>>

\* search, lines 230-232, one turn of the loop
SearchCoverRight ==
    /\ At("search", "coverRow")
    /\ Top.cur # Top.rowNode
    /\ nodes' = cover(nodes, nodes[Top.cur].colHead)
    /\ frames' = SetTop([Top EXCEPT !.cur = nodes'[Top.cur].right])
    /\ covered' = Append(covered, nodes[Top.cur].colHead)
    /\ UNCHANGED <<m, n, ctl, err, p, hist>>

\* search, line 235
SearchRecurse ==
    /\ At("search", "coverRow")
    /\ Top.cur = Top.rowNode
    /\ Len(frames) < MaxDepth
    /\ frames' = Append(SetTop([Top EXCEPT !.pc = "popRow"]), searchFrame(nodes, p))
    /\ UNCHANGED <<m, n, ctl, err, nodes, p, hist, covered>>

\* search, line 235, when the recursion has no end: the goroutine's stack
\* overflows, which is fatal
SearchStackOverflow ==
    /\ At("search", "coverRow")
    /\ Top.cur = Top.rowNode
    /\ Len(frames) >= MaxDepth
    /\ ctl' = "panic"
    /\ hist' = Append(hist, [op |-> "Solve", name |-> "", err |-> "fatal error: stack overflow",
                             solutions |-> << >>])
    /\ UNCHANGED <<m, n, err, nodes, p, frames, covered>>

\* search with the loop of line 243 started at rowNode.right: the columns of
\* the row are uncovered from the wrong end
SearchPopRow_FromRight ==
    /\ At("search", "popRow")
    /\ p' = popRowFromSolution(p)
    /\ frames' = SetTop([Top EXCEPT !.pc = "uncoverRow", !.cur = nodes[Top.rowNode].right])
    /\ UNCHANGED <<m, n, ctl, err, nodes, hist, covered>>

\* search, lines 239-243
SearchPopRow ==
    /\ At("search", "popRow")
    /\ p' = popRowFromSolution(p)
    /\ frames' = SetTop([Top EXCEPT !.pc = "uncoverRow", !.cur = nodes[Top.rowNode].left])
    /\ UNCHANGED <<m, n, ctl, err, nodes, hist, covered>>

\* search, lines 243-245, one turn of the loop
SearchUncoverLeft ==
    /\ At("search", "uncoverRow")
    /\ Top.cur # Top.rowNode
    /\ nodes' = uncover(nodes, nodes[Top.cur].colHead)
    /\ frames' = SetTop([Top EXCEPT !.cur = nodes'[Top.cur].left])
    /\ covered' = Uncovered(covered, nodes[Top.cur].colHead)
    /\ UNCHANGED <<m, n, ctl, err, p, hist>>

\* the loop of line 224 left after its first turn
SearchNextRow_Stop ==
    /\ At("search", "uncoverRow")
    /\ Top.cur = Top.rowNode
    /\ frames' = SetTop([Top EXCEPT !.pc = "loop", !.rowNode = Top.colHead])
    /\ UNCHANGED <<m, n, ctl, err, nodes, p, hist, covered>>

\* search, line 224: the next row of the column
SearchNextRow ==
    /\ At("search", "uncoverRow")
    /\ Top.cur = Top.rowNode
    /\ frames' = SetTop([Top EXCEPT !.pc = "loop", !.rowNode = nodes[Top.rowNode].down])
    /\ UNCHANGED <<m, n, ctl, err, nodes, p, hist, covered>>

\* search, lines 224 and 250-251
SearchFinish ==
    /\ At("search", "loop")
    /\ Top.rowNode = Top.colHead
    /\ nodes' = uncover(nodes, Top.colHead)
    /\ SearchReturn(p)
    /\ covered' = Uncovered(covered, Top.colHead)
    /\ UNCHANGED <<m, n, ctl, err, p>>

\* Rows are pre-selected before the search is started, at most MaxPre times.
MayPreselect ==
    /\ Idle
    /\ Called("Solve") = {}
    /\ Cardinality(Called("RowIsSolution")) < MaxPre

\* RowIsSolution without the check of line 344: the nil header is dereferenced
RowIsSolutionUnknown_NoCheck ==
    /\ MayPreselect
    /\ \E name \in Names :
        /\ name \notin DOMAIN p.rowsByName
        /\ hist' = Append(hist, rowIsSolutionReturn(name, "panic: nil pointer dereference"))
    /\ ctl' = "panic"
    /\ UNCHANGED <<m, n, err, nodes, p, frames, covered>>

\* RowIsSolution, lines 343-346
RowIsSolutionUnknown ==
    /\ MayPreselect
    /\ \E name \in Names :
        /\ name \notin DOMAIN p.rowsByName
        /\ hist' = Append(hist, rowIsSolutionReturn(name, "No row found with name"))
    /\ UNCHANGED <<m, n, ctl, err, nodes, p, frames, covered>>

\* RowIsSolution, lines 343-350, of a row without a cell: header.first is nil
\* and header.first.right is a nil pointer dereference
RowIsSolutionNilFirst ==
    /\ MayPreselect
    /\ \E name \in Names :
        /\ name \in DOMAIN p.rowsByName
        /\ p.rowHeaders[p.rowsByName[name]].first = Nil
        /\ hist' = Append(hist, rowIsSolutionReturn(name, "panic: nil pointer dereference"))
    /\ ctl' = "panic"
    /\ UNCHANGED <<m, n, err, nodes, p, frames, covered>>

\* RowIsSolution, lines 343-350
RowIsSolution ==
    /\ MayPreselect
    /\ \E name \in Names :
        /\ name \in DOMAIN p.rowsByName
        /\ p.rowHeaders[p.rowsByName[name]].first # Nil
        /\ frames' = <<rowIsSolutionFrame(nodes, p, name, p.rowsByName[name])>>
    /\ UNCHANGED <<m, n, ctl, err, nodes, p, hist, covered>>

\* RowIsSolution, lines 350-352, one turn of the loop
RowIsSolutionCoverRight ==
    /\ At("RowIsSolution", "coverRight")
    /\ Top.cur # p.rowHeaders[Top.header].first
    /\ nodes' = cover(nodes, nodes[Top.cur].colHead)
    /\ frames' = SetTop([Top EXCEPT !.cur = nodes'[Top.cur].right])
    /\ covered' = Append(covered, nodes[Top.cur].colHead)
    /\ UNCHANGED <<m, n, ctl, err, p, hist>>

\* RowIsSolution without line 356: the column of the first cell stays
RowIsSolutionFinish_NoFirst ==
    /\ At("RowIsSolution", "coverRight")
    /\ Top.cur = p.rowHeaders[Top.header].first
    /\ p' = pushRowToSolution(p, Top.header)
    /\ frames' = << >>
    /\ hist' = Append(hist, rowIsSolutionReturn(Top.name, NoError))
    /\ UNCHANGED <<m, n, ctl, err, nodes, covered>>

\* RowIsSolution without line 358: the row is not pushed
RowIsSolutionFinish_NoPush ==
    /\ At("RowIsSolution", "coverRight")
    /\ Top.cur = p.rowHeaders[Top.header].first
    /\ nodes' = cover(nodes, nodes[p.rowHeaders[Top.header].first].colHead)
    /\ frames' = << >>
    /\ hist' = Append(hist, rowIsSolutionReturn(Top.name, NoError))
    /\ covered' = Append(covered, nodes[p.rowHeaders[Top.header].first].colHead)
    /\ UNCHANGED <<m, n, ctl, err, p>>

\* RowIsSolution, lines 350 and 355-359
RowIsSolutionFinish ==
    /\ At("RowIsSolution", "coverRight")
    /\ Top.cur = p.rowHeaders[Top.header].first
    /\ nodes' = cover(nodes, nodes[p.rowHeaders[Top.header].first].colHead)
    /\ p' = pushRowToSolution(p, Top.header)
    /\ frames' = << >>
    /\ hist' = Append(hist, rowIsSolutionReturn(Top.name, NoError))
    /\ covered' = Append(covered, nodes[p.rowHeaders[Top.header].first].colHead)
    /\ UNCHANGED <<m, n, ctl, err>>

Next ==
    \/ New
    \/ Solve
    \/ SearchSolution
    \/ SearchDeadEnd
    \/ SearchBranch
    \/ SearchPushRow
    \/ SearchCoverRight
    \/ SearchRecurse
    \/ SearchStackOverflow
    \/ SearchPopRow
    \/ SearchUncoverLeft
    \/ SearchNextRow
    \/ SearchFinish
    \/ RowIsSolutionUnknown
    \/ RowIsSolutionNilFirst
    \/ RowIsSolution
    \/ RowIsSolutionCoverRight
    \/ RowIsSolutionFinish

Spec == Init /\ [][Next]_vars

\* the steps of a call in progress: a call of Solve or of RowIsSolution runs
\* on its goroutine, statement after statement, until it returns or panics
Running ==
    \/ SearchSolution
    \/ SearchDeadEnd
    \/ SearchBranch
    \/ SearchPushRow
    \/ SearchCoverRight
    \/ SearchRecurse
    \/ SearchStackOverflow
    \/ SearchPopRow
    \/ SearchUncoverLeft
    \/ SearchNextRow
    \/ SearchFinish
    \/ RowIsSolutionCoverRight
    \/ RowIsSolutionFinish

\* the program with its calls run to their end; when the caller makes a call
\* is left open
FairSpec == Spec /\ WF_vars(Running)

----------------------------------------------------------------------------
(* Solve as a function of the Problem: search run to its return, for the     *)
(* comparison of two Problems built from one input                           *)

\* search, lines 230-232: the loop over the cells to the right of rowNode
RECURSIVE coverRightOf(_, _, _)
coverRightOf(nd, rowNode, rightNode) ==
    IF rightNode # rowNode
    THEN LET n1 == cover(nd, nd[rightNode].colHead)
         IN  coverRightOf(n1, rowNode, n1[rightNode].right)
    ELSE nd

\* search, lines 243-245: the loop over the cells to the left of rowNode
RECURSIVE uncoverLeftOf(_, _, _)
uncoverLeftOf(nd, rowNode, leftNode) ==
    IF leftNode # rowNode
    THEN LET n1 == uncover(nd, nd[leftNode].colHead)
         IN  uncoverLeftOf(n1, rowNode, n1[leftNode].left)
    ELSE nd

RECURSIVE search(_)
RECURSIVE searchRows(_, _, _)

\* search, lines 224-247: the loop over the rows of the column colHead
searchRows(s, colHead, rowNode) ==
    IF rowNode # colHead
    THEN LET p1 == pushRowToSolution(s.p, s.nodes[rowNode].rowHead)
             n1 == coverRightOf(s.nodes, rowNode, s.nodes[rowNode].right)
             s2 == search([nodes |-> n1, p |-> p1])
             p3 == popRowFromSolution(s2.p)
             n3 == uncoverLeftOf(s2.nodes, rowNode, s2.nodes[rowNode].left)
         IN  searchRows([nodes |-> n3, p |-> p3], colHead, n3[rowNode].down)
    ELSE s

\* search, lines 200-251
search(s) ==
    IF s.p.root = s.nodes[s.p.root].right
    THEN [s EXCEPT !.p = recordSolution(s.p)]
    ELSE LET colHead == nextCol(s.nodes, s.p)
         IN  IF s.nodes[colHead].colCount = 0
             THEN s
             ELSE LET n1 == cover(s.nodes, colHead)
                      s2 == searchRows([s EXCEPT !.nodes = n1], colHead, n1[colHead].down)
                  IN  [s2 EXCEPT !.nodes = uncover(s2.nodes, colHead)]

\* Solve, lines 320-323, on the Problem NewExactCoverProblem(mm, nn) returns
SolveFresh(mm, nn) ==
    LET r == NewExactCoverProblem(mm, nn)
    IN  search([nodes |-> r.nodes, p |-> r.p]).p.solutions

----------------------------------------------------------------------------
(* Vocabulary of the properties *)

Constructed == ctl \in {"ready", "panic"}

RowIx == 1..Len(m)

ColIx == IF Len(m) = 0 THEN {} ELSE 1..Len(m[1])

\* the row called nm (names are unique once the constructor has succeeded)
RowNamed(nm) == CHOOSE r \in RowIx : n[r] = nm

HasCell(r) == \E c \in ColIx : m[r][c]

SharesColumn(r1, r2) == \E c \in ColIx : m[r1][c] /\ m[r2][c]

\* every column is true in exactly one row of S
ExactCover(S) == \A c \in ColIx : Cardinality({r \in S : m[r][c]}) = 1

NameSet(sol) == {sol[j] : j \in 1..Len(sol)}

\* the first call on the Problem was Solve, and it has returned
FreshSolveDone == Len(hist) >= 1 /\ hist[1].op = "Solve"

\* the headers met walking right from the root, until the root is met again
RECURSIVE walkRight(_, _, _, _)
walkRight(nd, root, x, fuel) ==
    IF x = root \/ fuel = 0 THEN << >>
    ELSE <<x>> \o walkRight(nd, root, nd[x].right, fuel - 1)

RootRing == NameSet(walkRight(nodes, p.root, nodes[p.root].right, Len(nodes)))

\* the rows RowIsSolution has returned success for, in the order of the calls
PreSelected ==
    LET ok == SelectSeq(hist, LAMBDA h : h.op = "RowIsSolution" /\ h.err = NoError)
    IN  [i \in 1..Len(ok) |-> RowNamed(ok[i].name)]

\* no two pre-selected rows share a column (a row selected twice shares its own)
DisjointPreSelection ==
    \A i, j \in 1..Len(PreSelected) :
        i # j => ~SharesColumn(PreSelected[i], PreSelected[j])

InRowIsSolution == frames # << >> /\ frames[1].fn = "RowIsSolution"

----------------------------------------------------------------------------
(* C1: every solution the first Solve on a freshly built Problem returns     *)
(* selects rows of which, in every column, exactly one is true.              *)
C1_SolutionsCoverExactlyOnce ==
    FreshSolveDone =>
        \A k \in 1..Len(hist[1].solutions) :
            LET sol == hist[1].solutions[k]
            IN  \A c \in ColIx :
                    Cardinality({j \in 1..Len(sol) : m[RowNamed(sol[j])][c]}) = 1

C1_Witness ==
    /\ FreshSolveDone
    /\ Len(hist[1].solutions) >= 2
    /\ \E k \in 1..Len(hist[1].solutions) : Len(hist[1].solutions[k]) >= 2

(* C2: the first Solve on a freshly built Problem returns every exact cover  *)
(* made of rows with a cell exactly once.                                    *)
C2_AllCoversOnce ==
    FreshSolveDone =>
        \A S \in SUBSET RowIx :
            ((\A r \in S : HasCell(r)) /\ ExactCover(S)) =>
                Cardinality({k \in 1..Len(hist[1].solutions) :
                                NameSet(hist[1].solutions[k]) = {n[r] : r \in S}}) = 1

C2_Witness ==
    /\ FreshSolveDone
    /\ Cardinality({S \in SUBSET RowIx : (\A r \in S : HasCell(r)) /\ ExactCover(S)}) >= 2
    /\ Len(hist[1].solutions) >= 2

(* C3 as stated: in every state during a search or after pre-selection,      *)
(* cover(c) then uncover(c) of a header c of the root ring gives back every  *)
(* link and every count.                                                     *)
C3_CoverUncoverRoundTrip_AnyPreSelection ==
    (ctl = "ready" /\ ~InRowIsSolution) =>
        \A c \in RootRing : uncover(cover(nodes, c), c) = nodes

(* C3 amended: the same, when the pre-selected rows pairwise share no column *)
C3_CoverUncoverRoundTrip ==
    (ctl = "ready" /\ ~InRowIsSolution /\ DisjointPreSelection) =>
        \A c \in RootRing : uncover(cover(nodes, c), c) = nodes

C3_Witness ==
    /\ ctl = "ready" /\ ~InRowIsSolution /\ DisjointPreSelection
    /\ Len(PreSelected) >= 1
    /\ frames # << >> /\ Top.fn = "search"
    /\ \E c \in RootRing :
        /\ nodes[c].colCount >= 1
        /\ \E x \in 1..Len(nodes) : cover(nodes, c)[x].colCount < nodes[x].colCount

(* C4: when the pre-selected rows pairwise share no column (one row alone    *)
(* among them), every solution the Solve that follows returns holds the name *)
(* of every pre-selected row.                                                *)
C4_SolutionsHoldPreSelectedRows ==
    (DisjointPreSelection /\ Called("Solve") # {}) =>
        LET first == hist[Len(hist) - Cardinality(Called("Solve")) + 1]
        IN  \A k \in 1..Len(first.solutions) :
                \A j \in 1..Len(PreSelected) :
                    HasCell(PreSelected[j]) =>
                        n[PreSelected[j]] \in NameSet(first.solutions[k])

C4_Witness ==
    /\ DisjointPreSelection
    /\ Len(PreSelected) = 2
    /\ Len(hist) = 3 /\ hist[3].op = "Solve"
    /\ \E k \in 1..Len(hist[3].solutions) : Len(hist[3].solutions[k]) = 3

(* C5: every call of RowIsSolution ends with success or with the error, the  *)
(* error exactly when the name is no row of the Problem.                     *)
C5_RowIsSolutionAlwaysAnswers ==
    \A i \in Called("RowIsSolution") :
        /\ hist[i].err \in {NoError, "No row found with name"}
        /\ hist[i].err = NoError <=> hist[i].name \in DOMAIN p.rowsByName

(* C6: the constructor returns an error and nil exactly when the matrix has  *)
(* one row or none, or rows of different lengths, or two rows of one name;   *)
(* otherwise a Problem and no error.                                         *)
C6_ConstructorRejectsExactly ==
    LET bad == \/ Len(m) <= 1
               \/ \E i, j \in RowIx : Len(m[i]) # Len(m[j])
               \/ \E i, j \in RowIx : i # j /\ n[i] = n[j]
    IN  ctl # "new" =>
            /\ bad => (ctl = "failed" /\ err # NoError /\ nodes = << >> /\ p = newProblem)
            /\ ~bad => (Constructed /\ err = NoError /\ p.root # Nil)

C6_Witness ==
    /\ ctl = "failed"
    /\ Len(m) = 3
    /\ \A i \in RowIx : Len(m[i]) = 2
    /\ n[1] # n[2] /\ n[3] = n[1]

(* C7: a call of RowIsSolution with a name that is no row returns the error  *)
(* and changes nothing of the Problem; and the Solve that follows such calls *)
(* alone returns what it returns on a fresh Problem, every exact cover once. *)
C7_UnknownNameChangesNothing ==
    /\ [][(/\ Len(hist') = Len(hist) + 1
           /\ hist'[Len(hist')].op = "RowIsSolution"
           /\ hist'[Len(hist')].name \notin DOMAIN p.rowsByName)
          => (/\ hist'[Len(hist')].err = "No row found with name"
              /\ nodes' = nodes /\ p' = p /\ frames' = frames /\ ctl' = ctl)]_vars
    /\ [](\A i \in Called("Solve") :
            (\A j \in 1..(i - 1) : hist[j].op = "RowIsSolution" /\ hist[j].err # NoError)
            => /\ \A S \in SUBSET RowIx :
                    ((\A r \in S : HasCell(r)) /\ ExactCover(S)) =>
                        \E k \in 1..Len(hist[i].solutions) :
                            NameSet(hist[i].solutions[k]) = {n[r] : r \in S}
               /\ \A k \in 1..Len(hist[i].solutions) :
                    ExactCover({RowNamed(x) : x \in NameSet(hist[i].solutions[k])}))

C7_Witness ==
    /\ Len(hist) = 3
    /\ hist[1].op = "RowIsSolution" /\ hist[1].err = "No row found with name"
    /\ hist[2].op = "RowIsSolution" /\ hist[2].err = "No row found with name"
    /\ hist[3].op = "Solve" /\ Len(hist[3].solutions) >= 2

(* C8: if a column is false in every row, the first Solve on a freshly built *)
(* Problem returns no solution.                                              *)
C8_EmptyColumnNoSolution ==
    (FreshSolveDone /\ \E c \in ColIx : \A r \in RowIx : ~m[r][c]) =>
        hist[1].solutions = << >>

C8_Witness ==
    /\ FreshSolveDone
    /\ \E c \in ColIx : \A r \in RowIx : ~m[r][c]
    /\ \E c \in ColIx : \E r \in RowIx : m[r][c]
    /\ Len(m[1]) >= 2

(* C9: a Solve called right after a Solve returns what that one returned.    *)
C9_SolveTwiceSame ==
    \A i \in Called("Solve") :
        (i + 1 \in Called("Solve")) => hist[i + 1].solutions = hist[i].solutions

\* a frame of search returns in this step
SearchReturns ==
    /\ frames # << >> /\ Top.fn = "search"
    /\ frames' = SubSeq(frames, 1, Len(frames) - 1)

\* the step leaves the links, the counts and the stack of rows as they were
\* when the returning frame was entered, and only appends to the solutions
RestoresEntry ==
    /\ nodes' = Top.entry.nodes
    /\ p'.solutionRows = Top.entry.solutionRows
    /\ [p' EXCEPT !.solutions = p.solutions] = p
    /\ \E k \in 0..1 : Len(p'.solutions) = Len(p.solutions) + k
    /\ SubSeq(p'.solutions, 1, Len(p.solutions)) = p.solutions

(* C10 as stated: every invocation of search returns with every link, every  *)
(* count and the stack of rows as they were when it was entered.             *)
C10_SearchRestores_AnyPreSelection ==
    [][SearchReturns => RestoresEntry]_vars

(* C10 amended: the same, when the pre-selected rows pairwise share no       *)
(* column.                                                                   *)
C10_SearchRestores ==
    [][(SearchReturns /\ DisjointPreSelection) => RestoresEntry]_vars

C10_Witness ==
    /\ Len(hist) >= 2 /\ hist[1].op = "RowIsSolution" /\ hist[1].err = NoError
    /\ hist[Len(hist)].op = "Solve" /\ hist[Len(hist)].err = NoError
    /\ DisjointPreSelection
    /\ Len(hist[Len(hist)].solutions) >= 1
    /\ frames = << >>
    /\ nodes # NewExactCoverProblem(m, n).nodes

\* the column the next step uncovers, Nil when the next step is no uncover
Uncovering ==
    IF At("search", "uncoverRow") /\ Top.cur # Top.rowNode THEN nodes[Top.cur].colHead
    ELSE IF At("search", "loop") /\ Top.rowNode = Top.colHead THEN Top.colHead
    ELSE Nil

\* the columns of the cells met walking right from x until the cell last
RECURSIVE colsRight(_, _, _, _)
colsRight(nd, x, last, fuel) ==
    IF fuel = 0 THEN << >>
    ELSE IF x = last THEN <<nd[x].colHead>>
    ELSE <<nd[x].colHead>> \o colsRight(nd, nd[x].right, last, fuel - 1)

\* the columns of the chosen row of the top frame that are still covered,
\* in the order search covered them
BranchStillCovered ==
    IF Top.cur = Top.rowNode THEN << >>
    ELSE colsRight(nodes, nodes[Top.rowNode].right, Top.cur, Len(nodes))

(* C11: during Solve every uncover is of the column covered last among the   *)
(* columns not yet uncovered, and while a frame of search uncovers the       *)
(* columns of its chosen row, the columns of that row still covered are the  *)
(* last ones covered, in the order of the covering, on top of the frame's    *)
(* own column: they are uncovered in the reverse of that order.              *)
C11_CoverUncoverNested ==
    /\ [][Uncovering # Nil =>
            /\ covered # << >>
            /\ covered[Len(covered)] = Uncovering
            /\ nodes' = uncover(nodes, Uncovering)
            /\ covered' = SubSeq(covered, 1, Len(covered) - 1)]_vars
    /\ [](At("search", "uncoverRow") =>
            LET k == Len(BranchStillCovered)
            IN  /\ Len(covered) >= k + 1
                /\ SubSeq(covered, Len(covered) - k + 1, Len(covered)) = BranchStillCovered
                /\ covered[Len(covered) - k] = Top.colHead)

C11_Witness ==
    /\ At("search", "uncoverRow")
    /\ Top.cur = nodes[Top.rowNode].right
    /\ nodes[Top.cur].right # Top.rowNode
    /\ covered = <<Top.colHead, nodes[Top.cur].colHead>>

\* the cells met walking down from x until the header head is met again
RECURSIVE walkDown(_, _, _, _)
walkDown(nd, head, x, fuel) ==
    IF x = head \/ fuel = 0 THEN << >>
    ELSE <<x>> \o walkDown(nd, head, nd[x].down, fuel - 1)

ColumnCells(c) == walkDown(nodes, c, nodes[c].down, Len(nodes))

Headers == {p.colHeaders[i] : i \in 1..Len(p.colHeaders)}

(* C12: after construction, after the pre-selection of rows that pairwise    *)
(* share no column and at every point of a search, between two calls of      *)
(* cover and uncover, the colCount of every header, covered or not, is the   *)
(* number of cells met walking down from the header until it is met again.   *)
C12_ColCountIsColumnLength ==
    (ctl = "ready" /\ ~InRowIsSolution /\ DisjointPreSelection) =>
        \A c \in Headers : nodes[c].colCount = Len(ColumnCells(c))

C12_Witness ==
    /\ At("search", "coverRow")
    /\ Len(PreSelected) >= 1 /\ DisjointPreSelection
    /\ \E c \in Headers :
        /\ c \notin RootRing
        /\ nodes[c].colCount >= 1
        /\ nodes[c].colCount < Cardinality({r \in RowIx : m[r][nodes[c].colIndex + 1]})

Cells == (1..Len(nodes)) \ ({p.root} \cup Headers)

LeftRightConsistent(x) ==
    nodes[nodes[x].left].right = x /\ nodes[nodes[x].right].left = x

UpDownConsistent(x) ==
    nodes[nodes[x].up].down = x /\ nodes[nodes[x].down].up = x

\* x is the root or a header of the root ring, or a cell of a row (the ring
\* of a row is never changed)
InLeftRightRing(x) == x = p.root \/ x \in RootRing \/ x \in Cells

\* x is a header, or a cell met walking down from the header of its column
InUpDownRing(x) ==
    x \in Headers \/ (x \in Cells /\ x \in NameSet(ColumnCells(nodes[x].colHead)))

(* C13 as stated: after construction, after pre-selection and at every point *)
(* of a search, every cell and every header X has X.left.right = X,          *)
(* X.right.left = X, X.up.down = X and X.down.up = X.                        *)
C13_EveryNodeConsistent ==
    (ctl = "ready" /\ ~InRowIsSolution) =>
        \A x \in Headers \cup Cells : LeftRightConsistent(x) /\ UpDownConsistent(x)

(* C13 amended: in these states, when the pre-selected rows pairwise share   *)
(* no column, the same holds of every node that is in the ring: left and     *)
(* right of every cell and of every header of the root ring, up and down of  *)
(* every header and of every cell met walking down from its header.          *)
C13_RingNodesConsistent ==
    (ctl = "ready" /\ ~InRowIsSolution /\ DisjointPreSelection) =>
        \A x \in {p.root} \cup Headers \cup Cells :
            /\ InLeftRightRing(x) => LeftRightConsistent(x)
            /\ InUpDownRing(x) => UpDownConsistent(x)

C13_Witness ==
    /\ At("search", "coverRow")
    /\ Len(PreSelected) >= 1 /\ DisjointPreSelection
    /\ \E x \in Cells : ~InUpDownRing(x)
    /\ \E x \in Cells : InUpDownRing(x)
    /\ \E x \in Headers : ~InLeftRightRing(x)
    /\ \E x \in Headers : InLeftRightRing(x)

\* the headers met walking left from the root, until the root is met again
RECURSIVE walkLeft(_, _, _, _)
walkLeft(nd, root, x, fuel) ==
    IF x = root \/ fuel = 0 THEN << >>
    ELSE <<x>> \o walkLeft(nd, root, nd[x].left, fuel - 1)

Reverse(sq) == [i \in 1..Len(sq) |-> sq[Len(sq) + 1 - i]]

\* the headers that are not covered, by increasing column index
UncoveredHeaders == SelectSeq(p.colHeaders, LAMBDA h : h \notin NameSet(covered))

\* the root ring is the headers that are not covered, in the order of the
\* columns to the right and in the reverse order to the left
RootRingIsUncovered ==
    /\ walkRight(nodes, p.root, nodes[p.root].right, Len(nodes) + 1) = UncoveredHeaders
    /\ walkLeft(nodes, p.root, nodes[p.root].left, Len(nodes) + 1) = Reverse(UncoveredHeaders)

\* a solution is recorded by the step exactly when search is entered with a
\* root ring that holds no header
RecordsAtEmptyRing ==
    (Len(p'.solutions) # Len(p.solutions)) <=>
        (At("search", "enter") /\ nodes[p.root].right = p.root)

\* the rows pre-selected and the row RowIsSolution is covering the columns of
Selecting ==
    PreSelected \o (IF InRowIsSolution THEN <<frames[1].header>> ELSE << >>)

DisjointSelecting ==
    \A i, j \in 1..Len(Selecting) : i # j => ~SharesColumn(Selecting[i], Selecting[j])

(* C14 as stated: in every state between two calls of cover and uncover the  *)
(* walk right from the root meets exactly the headers not covered, once      *)
(* each, by increasing column index, and the walk left meets them in the     *)
(* reverse order; a solution is recorded exactly when search finds the ring  *)
(* without a header.                                                         *)
C14_RootRing_AnyPreSelection ==
    /\ [](ctl = "ready" => RootRingIsUncovered)
    /\ [][ctl = "ready" => RecordsAtEmptyRing]_vars

(* C14 amended: the same, when the pre-selected rows pairwise share no       *)
(* column.                                                                   *)
C14_RootRing ==
    /\ []((ctl = "ready" /\ DisjointSelecting) => RootRingIsUncovered)
    /\ [][ctl = "ready" => RecordsAtEmptyRing]_vars

C14_Witness ==
    /\ At("search", "enter")
    /\ Len(frames) >= 2
    /\ Len(PreSelected) = 1
    /\ nodes[p.root].right = p.root
    /\ Len(p.solutions) >= 1

\* the rows chosen by the frames of search that enclose the top frame, the
\* outermost first
ChosenRows == [i \in 1..(Len(frames) - 1) |-> nodes[frames[i].rowNode].rowHead]

SelectionOrder == PreSelected \o ChosenRows

(* C15: at every entry to search the stack of rows is the pre-selected rows  *)
(* in the order of their selection, followed by the row chosen in each       *)
(* enclosing frame of search from the outermost to the innermost, so its     *)
(* length is the number of pre-selected rows plus the depth of the           *)
(* recursion; and every solution recorded lists the names in that order.     *)
C15_StackIsSelectionOrder ==
    /\ [](At("search", "enter") =>
            /\ p.solutionRows = SelectionOrder
            /\ Len(p.solutionRows) = Len(PreSelected) + (Len(frames) - 1))
    /\ [][Len(p'.solutions) # Len(p.solutions) =>
            /\ At("search", "enter")
            /\ p'.solutions =
                 Append(p.solutions, [i \in 1..Len(SelectionOrder) |-> n[SelectionOrder[i]]])]_vars

C15_Witness ==
    /\ At("search", "enter")
    /\ Len(PreSelected) = 1
    /\ Len(frames) = 3
    /\ Len(p.solutions) >= 1
    /\ PreSelected[1] > ChosenRows[1]

\* the headers of the root ring in the order of the walk right from the root
RootRingSeq == walkRight(nodes, p.root, nodes[p.root].right, Len(nodes) + 1)

\* the walk right from the root comes back to the root
RootRingCloses ==
    \E k \in 0..Len(nodes) :
        /\ Len(RootRingSeq) = k
        /\ IF k = 0 THEN nodes[p.root].right = p.root
           ELSE nodes[RootRingSeq[k]].right = p.root

(* C16: whenever the root ring holds a header, nextCol returns the header of *)
(* the ring with the smallest colCount, and of the headers with that count   *)
(* the one met first walking right from the root.                            *)
C16_NextColIsFirstSmallest ==
    (ctl = "ready" /\ RootRingCloses /\ RootRingSeq # << >>) =>
        \E k \in 1..Len(RootRingSeq) :
            /\ nextCol(nodes, p) = RootRingSeq[k]
            /\ \A j \in 1..Len(RootRingSeq) :
                    nodes[RootRingSeq[k]].colCount <= nodes[RootRingSeq[j]].colCount
            /\ \A j \in 1..(k - 1) :
                    nodes[RootRingSeq[k]].colCount < nodes[RootRingSeq[j]].colCount

C16_Witness ==
    /\ At("search", "enter")
    /\ Len(frames) >= 2
    /\ Len(RootRingSeq) = 2
    /\ nodes[RootRingSeq[1]].colCount = nodes[RootRingSeq[2]].colCount
    /\ nodes[RootRingSeq[1]].colCount >= 1
    /\ nextCol(nodes, p) = RootRingSeq[1]

\* the rows that are true in column j of the matrix, by increasing index
TrueRows(j) == SelectSeq([r \in 1..Len(m) |-> r], LAMBDA r : m[r][j])

\* the colIndex of the columns that are true in row r, by increasing index
TrueCols(r) == SelectSeq([j \in 1..Len(m[r]) |-> j], LAMBDA j : m[r][j])

\* the cells of the ring of a row, from the cell first and to the right
RowCells(first) == <<first>> \o walkRight(nodes, first, nodes[first].right, Len(nodes))

JustConstructed == ctl = "ready" /\ hist = << >> /\ frames = << >>

(* C17: after a successful construction the walk right from the root meets   *)
(* the headers of the columns 0 to numCols-1 in this order; the walk down    *)
(* from a header meets the cells of the rows that are true in its column, by *)
(* increasing row index, and colCount is their number; the first cell of a   *)
(* row with a true element is the cell of its lowest true column, and the    *)
(* walk right from it meets the true columns of the row by increasing index. *)
C17_ConstructedLayout ==
    JustConstructed =>
        /\ p.numCols = Len(m[1])
        /\ RootRingSeq = p.colHeaders
        /\ RootRingCloses
        /\ \A j \in ColIx :
            LET head == p.colHeaders[j]
                cells == ColumnCells(head)
            IN  /\ nodes[head].colIndex = j - 1
                /\ [i \in 1..Len(cells) |-> nodes[cells[i]].rowHead] = TrueRows(j)
                /\ \A i \in 1..Len(cells) :
                        /\ nodes[cells[i]].colHead = head
                        /\ p.rowHeaders[nodes[cells[i]].rowHead].index = nodes[cells[i]].rowHead - 1
                /\ nodes[IF cells = << >> THEN head ELSE cells[Len(cells)]].down = head
                /\ nodes[head].colCount = Len(TrueRows(j))
        /\ \A r \in RowIx :
            HasCell(r) =>
                LET first == p.rowHeaders[r].first
                    cells == RowCells(first)
                IN  /\ first # Nil
                    /\ [i \in 1..Len(cells) |-> nodes[cells[i]].colIndex + 1] = TrueCols(r)
                    /\ \A i \in 1..Len(cells) :
                            /\ nodes[cells[i]].rowHead = r
                            /\ nodes[cells[i]].colHead = p.colHeaders[nodes[cells[i]].colIndex + 1]
                    /\ nodes[cells[Len(cells)]].right = first

C17_Witness ==
    /\ JustConstructed
    /\ Len(m) = 3 /\ Len(m[1]) = 3
    /\ Len(TrueRows(1)) = 2 /\ ~m[2][1]
    /\ Len(TrueCols(3)) = 2 /\ ~m[3][2]
    /\ ~HasCell(2)

\* the headers of the columns in which a row of the stack is true
ColumnsOfStack ==
    {p.colHeaders[c] : c \in {j \in ColIx : \E i \in 1..Len(p.solutionRows) :
                                                m[p.solutionRows[i]][j]}}

(* C18: at every entry to search during a Solve that follows construction    *)
(* and, optionally, the pre-selection of rows that pairwise share no column, *)
(* the rows of the stack are pairwise distinct and pairwise share no column, *)
(* and the headers that are not in the root ring are the headers of the      *)
(* columns in which a row of the stack is true.                              *)
C18_StackDisjointAndCovers ==
    (At("search", "enter") /\ DisjointPreSelection) =>
        /\ \A i, j \in 1..Len(p.solutionRows) :
                i # j => /\ p.solutionRows[i] # p.solutionRows[j]
                         /\ ~SharesColumn(p.solutionRows[i], p.solutionRows[j])
        /\ Headers \ RootRing = ColumnsOfStack
        /\ RootRingCloses

C18_Witness ==
    /\ At("search", "enter")
    /\ DisjointPreSelection
    /\ Len(PreSelected) = 1
    /\ Len(frames) = 2
    /\ Len(p.solutionRows) = 2
    /\ Cardinality(ColumnsOfStack) = 2
    /\ Cardinality(RootRing) = 1

SolutionSets(sols) == {NameSet(sols[k]) : k \in 1..Len(sols)}

\* the first call on the Problem was RowIsSolution, of a row, and the second
\* was Solve, which has returned
PreSelectedOneThenSolved ==
    /\ Len(hist) >= 2
    /\ hist[1].op = "RowIsSolution" /\ hist[1].err = NoError
    /\ hist[2].op = "Solve" /\ hist[2].err = NoError

(* C19: the solutions Solve returns after RowIsSolution(r) on a fresh        *)
(* Problem, r a row with a true element, are, as sets of rows, the solutions *)
(* with r among those Solve returns on a second fresh Problem built from the *)
(* same matrix and names; the Solve of the second Problem is the search run  *)
(* as a function, which returns what the first Solve on a fresh Problem      *)
(* returns step by step.                                                     *)
C19_PreSelectionFiltersSolutions ==
    /\ PreSelectedOneThenSolved =>
            SolutionSets(hist[2].solutions) =
                {S \in SolutionSets(SolveFresh(m, n)) : hist[1].name \in S}
    /\ FreshSolveDone => hist[1].solutions = SolveFresh(m, n)

C19_Witness ==
    /\ PreSelectedOneThenSolved
    /\ Len(hist) = 2
    /\ Len(hist[2].solutions) >= 1
    /\ \E S \in SolutionSets(SolveFresh(m, n)) : hist[1].name \notin S
    /\ \E k \in 1..Len(hist[2].solutions) : Len(hist[2].solutions[k]) >= 2

InSearch == ctl = "ready" /\ frames # << >> /\ frames[1].fn = "search"

\* the stack of rows and the depth of the recursion are within the number of
\* rows of the matrix
StackWithinRows ==
    /\ Len(p.solutionRows) <= Len(m)
    /\ InSearch => Len(frames) - 1 <= Len(p.solutionRows)
    /\ ctl # "panic" \/ hist[Len(hist)].op # "Solve"

(* C20 as stated: every Solve returns, and the number of rows on the stack,  *)
(* hence the depth of the recursion, is never more than the number of rows   *)
(* of the matrix.                                                            *)
C20_SolveTerminates_AnyPreSelection ==
    /\ [](Constructed => StackWithinRows)
    /\ (InSearch ~> Idle)

(* C20 amended: the same, when the pre-selected rows pairwise share no       *)
(* column.                                                                   *)
C20_SolveTerminates ==
    /\ []((Constructed /\ DisjointPreSelection) => StackWithinRows)
    /\ ((InSearch /\ DisjointPreSelection) ~> Idle)

C20_Witness ==
    /\ InSearch
    /\ DisjointPreSelection
    /\ Len(PreSelected) = 1
    /\ Len(m) = 3
    /\ Len(p.solutionRows) = 3
    /\ Len(frames) = 3

====
